---- MODULE Spec2Model ----
(***************************************************************************)
(* Missing Credit Report Comparator (missing_credit_app.py).               *)
(*                                                                         *)
(* A Python str is modelled as a sequence of one-character strings, so     *)
(* that the regular expressions of the program are computed character by   *)
(* character.  A missing value (None / NaN) is the one-element sequence    *)
(* NaN, which no character sequence equals.                                *)
(***************************************************************************)
EXTENDS Integers, Sequences, FiniteSets, TLC

\* ------------------------------------------------------------------ bounds
MaxRows == 2         \* rows of an uploaded table (Spec)
MaxSortRows == 3     \* rows of the base table (SpecSort)
MaxTokens == 4       \* tokens of a raw PO string (SpecNorm)
MaxPairTokens == 3   \* token pairs of two respellings (SpecPair)

\* -------------------------------------------------------------- characters
LowerAlpha ==
  <<"a","b","c","d","e","f","g","h","i","j","k","l","m",
    "n","o","p","q","r","s","t","u","v","w","x","y","z">>
UpperAlpha ==
  <<"A","B","C","D","E","F","G","H","I","J","K","L","M",
    "N","O","P","Q","R","S","T","U","V","W","X","Y","Z">>
DigitChars == <<"0","1","2","3","4","5","6","7","8","9">>
\* The characters of the model in code-point order (Python compares str
\* values code point by code point).
CodeOrder == <<"\t", " ", "%">> \o DigitChars \o UpperAlpha \o LowerAlpha

Range(f) == {f[i] : i \in DOMAIN f}
IsSpace(c) == c \in {" ", "\t"}          \* \s, and what str.strip() strips
IsLower(c) == c \in Range(LowerAlpha)    \* [a-z]
IsDigit(c) == c \in Range(DigitChars)    \* \d
Ord(c) == CHOOSE i \in DOMAIN CodeOrder : CodeOrder[i] = c
DigitVal(c) == (CHOOSE i \in DOMAIN DigitChars : DigitChars[i] = c) - 1

NaN == <<"NaN">>
isna(v) == v = NaN

\* str.lower()
CharLower(c) ==
  IF \E i \in DOMAIN UpperAlpha : UpperAlpha[i] = c
  THEN LowerAlpha[CHOOSE i \in DOMAIN UpperAlpha : UpperAlpha[i] = c]
  ELSE c
str_lower(s) == [i \in DOMAIN s |-> CharLower(s[i])]

\* str.strip()
RECURSIVE lstrip(_)
lstrip(s) == IF s # <<>> /\ IsSpace(Head(s)) THEN lstrip(Tail(s)) ELSE s
RECURSIVE rstrip(_)
rstrip(s) ==
  IF s # <<>> /\ IsSpace(s[Len(s)]) THEN rstrip(SubSeq(s, 1, Len(s) - 1)) ELSE s
str_strip(s) == rstrip(lstrip(s))

\* s has the word w at position i
HasAt(s, i, w) == i + Len(w) - 1 <= Len(s) /\ SubSeq(s, i, i + Len(w) - 1) = w

\* length of the longest run of characters of a class that starts at i
RECURSIVE SpaceRun(_, _)
SpaceRun(s, i) == IF i <= Len(s) /\ IsSpace(s[i]) THEN 1 + SpaceRun(s, i + 1) ELSE 0
RECURSIVE LowerRun(_, _)
LowerRun(s, i) == IF i <= Len(s) /\ IsLower(s[i]) THEN 1 + LowerRun(s, i + 1) ELSE 0
RECURSIVE DigitRun(_, _)
DigitRun(s, i) == IF i <= Len(s) /\ IsDigit(s[i]) THEN 1 + DigitRun(s, i + 1) ELSE 0

onmk == <<"o","n","m","k">>
onmark == <<"o","n","m","a","r","k">>
rbt == <<"r","b","t">>

\* ------------------------------------------------------------- Normalizer
\* re.sub(r'\s+', '', s): every run of whitespace is deleted
re_sub_ws(s) == SelectSeq(s, LAMBDA c : ~IsSpace(c))

\* variant: strip() without the re.sub of the whitespace inside
clean_po_nostrip(po) == IF isna(po) THEN <<>> ELSE str_lower(str_strip(po))
clean_po(po) == IF isna(po) THEN <<>> ELSE str_lower(str_strip(re_sub_ws(po)))

\* q\d{3} at position i
QuarterAt(s, i) ==
  /\ i + 3 <= Len(s)
  /\ s[i] = "q"
  /\ \A k \in 1..3 : IsDigit(s[i + k])

\* re.sub(r"(q\d{3})(onmk)", r"\1 \2", po), scanning from position i
RECURSIVE sub_quarter(_, _)
sub_quarter(s, i) ==
  IF i > Len(s) THEN <<>>
  ELSE IF QuarterAt(s, i) /\ HasAt(s, i + 4, onmk)
       THEN SubSeq(s, i, i + 3) \o <<" ">> \o onmk \o sub_quarter(s, i + 8)
       ELSE <<s[i]>> \o sub_quarter(s, i + 1)

\* (onmk|onmark)([a-z]+) at position i: the length of the marker, 0 for no match
MarkerAt(s, i) ==
  IF HasAt(s, i, onmk) /\ LowerRun(s, i + 4) > 0 THEN 4
  ELSE IF HasAt(s, i, onmark) /\ LowerRun(s, i + 6) > 0 THEN 6
  ELSE 0

\* re.sub(r"(onmk|onmark)([a-z]+)", r"\1 \2", po), scanning from position i
RECURSIVE sub_marker(_, _)
sub_marker(s, i) ==
  IF i > Len(s) THEN <<>>
  ELSE LET m == MarkerAt(s, i)
           n == LowerRun(s, i + m)
       IN  IF m > 0
           THEN SubSeq(s, i, i + m - 1) \o <<" ">> \o SubSeq(s, i + m, i + m + n - 1)
                  \o sub_marker(s, i + m + n)
           ELSE <<s[i]>> \o sub_marker(s, i + 1)

\* re.sub(r"([a-z])(\d+%)", r"\1 \2", po), scanning from position i
RECURSIVE sub_percent(_, _)
sub_percent(s, i) ==
  IF i > Len(s) THEN <<>>
  ELSE LET d == DigitRun(s, i + 1)
       IN  IF IsLower(s[i]) /\ d > 0 /\ HasAt(s, i + 1 + d, <<"%">>)
           THEN <<s[i], " ">> \o SubSeq(s, i + 1, i + 1 + d) \o sub_percent(s, i + 2 + d)
           ELSE <<s[i]>> \o sub_percent(s, i + 1)

add_spaces(po) ==
  IF isna(po) THEN <<>>
  ELSE str_strip(sub_percent(sub_marker(sub_quarter(str_lower(po), 1), 1), 1))

\* ^(q\d{3}) on the identifier (str.extract: NaN when there is no match)
extract_quarter(s) == IF QuarterAt(s, 1) THEN SubSeq(s, 1, 4) ELSE NaN

\* (?:onmk|onmark)\s+(.+?)\s+rbt with the marker at position i: the pairs
\* <<w, c>> of a length w of the first \s+ and a length c of the group for
\* which the rest of the pattern matches ('.' is any character but a newline,
\* and the model has no newline)
MarkerLen(s, i) == IF HasAt(s, i, onmk) THEN 4 ELSE IF HasAt(s, i, onmark) THEN 6 ELSE 0
CategoryMatches(s, i) ==
  LET e == i + MarkerLen(s, i)
  IN  IF MarkerLen(s, i) = 0 THEN {}
      ELSE { p \in (1..SpaceRun(s, e)) \X (1..Len(s)) :
               LET k == e + p[1] + p[2]
               IN  /\ k - 1 <= Len(s)
                   /\ \E v \in 1..SpaceRun(s, k) : HasAt(s, k + v, rbt) }

\* the group of the first match: leftmost marker, the first \s+ greedy, the
\* group lazy
extract_category(s) ==
  IF \E i \in 1..Len(s) : CategoryMatches(s, i) # {}
  THEN LET i == CHOOSE i \in 1..Len(s) :
                  /\ CategoryMatches(s, i) # {}
                  /\ \A j \in 1..(i - 1) : CategoryMatches(s, j) = {}
           M == CategoryMatches(s, i)
           w == CHOOSE w \in {p[1] : p \in M} : \A p \in M : p[1] <= w
           c == CHOOSE c \in {p[2] : p \in {q \in M : q[1] = w}} :
                  \A p \in {q \in M : q[1] = w} : c <= p[2]
           e == i + MarkerLen(s, i)
       IN  SubSeq(s, e + w, e + w + c - 1)
  ELSE NaN

\* ----------------------------------------------------------------- tables
\* A DataFrame: its columns and its rows in order; a row keeps its index
\* label and holds one cell per column.
PO == "PO #"
QuarterKey == "Quarter Key"
DrugCategory == "Drug Category"
MissingIn == "Missing In"
NoTable == [cols |-> {}, rows |-> <<>>]

Column(df, c) == {df.rows[i].cells[c] : i \in DOMAIN df.rows}

\* df[col] = value for every row (the column is added when it is not there)
WithCell(r, cols, c, v) ==
  [idx |-> r.idx, cells |-> [k \in cols \cup {c} |-> IF k = c THEN v ELSE r.cells[k]]]

\* variant: without the filter of the blank PO rows
extract_features_keep_blank(df) ==
  LET spaced(r) == [r EXCEPT !.cells[PO] = add_spaces(clean_po(@))]
      feat(r) ==
        WithCell(WithCell(r, df.cols, QuarterKey, extract_quarter(r.cells[PO])),
                 df.cols \cup {QuarterKey}, DrugCategory, extract_category(r.cells[PO]))
  IN  [cols |-> df.cols \cup {QuarterKey, DrugCategory},
       rows |-> [i \in DOMAIN df.rows |-> feat(spaced(df.rows[i]))]]
\* extract_features; the caller has checked that df has the column PO #
extract_features(df) ==
  LET spaced(r) == [r EXCEPT !.cells[PO] = add_spaces(clean_po(@))]
      kept == SelectSeq([i \in DOMAIN df.rows |-> spaced(df.rows[i])],
                        LAMBDA r : ~isna(r.cells[PO]) /\ r.cells[PO] # <<>>)
      feat(r) ==
        WithCell(WithCell(r, df.cols, QuarterKey, extract_quarter(r.cells[PO])),
                 df.cols \cup {QuarterKey}, DrugCategory, extract_category(r.cells[PO]))
  IN  [cols |-> df.cols \cup {QuarterKey, DrugCategory}, rows |-> [i \in DOMAIN kept |-> feat(kept[i])]]

\* ------------------------------------------------------------- Reconciler
\* int(q[1:]): the digits as a number; anything else raises (and ranks 0)
RECURSIVE ParseInt(_)
ParseInt(d) == IF d = <<>> THEN 0 ELSE 10 * ParseInt(SubSeq(d, 1, Len(d) - 1)) + DigitVal(d[Len(d)])

quarter_sort_key(q) ==
  IF ~isna(q) /\ Len(q) > 1 /\ \A i \in 2..Len(q) : IsDigit(q[i])
  THEN ParseInt(SubSeq(q, 2, Len(q)))
  ELSE 0

\* Python's < on str
RECURSIVE StrLess(_, _)
StrLess(a, b) ==
  IF b = <<>> THEN FALSE
  ELSE IF a = <<>> THEN TRUE
  ELSE IF Head(a) # Head(b) THEN Ord(Head(a)) < Ord(Head(b))
  ELSE StrLess(Tail(a), Tail(b))

\* ascending order of one sort column with na_position='last' (the default)
\* variant: na_position='first'
CategoryLess_na_first(x, y) ==
  IF isna(x) THEN ~isna(y) ELSE ~isna(y) /\ StrLess(x, y)
CategoryLess(x, y) ==
  IF isna(y) THEN ~isna(x) ELSE ~isna(x) /\ StrLess(x, y)

\* sort_values(by=["Drug Category", "Quarter Sort"]): row a goes before row b
RowLess(a, b) ==
  \/ CategoryLess(a.cells[DrugCategory], b.cells[DrugCategory])
  \/ /\ a.cells[DrugCategory] = b.cells[DrugCategory]
     /\ quarter_sort_key(a.cells[QuarterKey]) < quarter_sort_key(b.cells[QuarterKey])

\* the sort on several columns is stable: a row goes after the rows that
\* are not greater
RECURSIVE InsertRow(_, _)
InsertRow(sorted, r) ==
  IF sorted = <<>> THEN <<r>>
  ELSE IF RowLess(r, Head(sorted)) THEN <<r>> \o sorted
  ELSE <<Head(sorted)>> \o InsertRow(Tail(sorted), r)

RECURSIVE SortRows(_)
SortRows(rows) ==
  IF rows = <<>> THEN <<>>
  ELSE InsertRow(SortRows(SubSeq(rows, 1, Len(rows) - 1)), rows[Len(rows)])

sort_df(df) == [cols |-> df.cols, rows |-> SortRows(df.rows)]

Comparer == <<"C","o","m","p","a","r","e","r">>
Base == <<"B","a","s","e">>
columns_to_keep == {PO, "DESCRIPTION", "CREDIT AMT", MissingIn, DrugCategory, QuarterKey}

\* df1[~df1["PO #"].isin(df2["PO #"])] with the column Missing In set to tag
MissingRows(df1, df2, tag) ==
  LET gone == SelectSeq(df1.rows, LAMBDA r : r.cells[PO] \notin Column(df2, PO))
  IN  [cols |-> df1.cols \cup {MissingIn},
       rows |-> [i \in DOMAIN gone |-> WithCell(gone[i], df1.cols, MissingIn, tag)]]

\* pd.concat([a, b], ignore_index=True): the union of the columns, NaN where
\* a row's own table has no such column, the index renumbered
concat(a, b) ==
  LET cols == a.cols \cup b.cols
      rows == a.rows \o b.rows
  IN  [cols |-> cols,
       rows |-> [i \in DOMAIN rows |->
                   [idx |-> i - 1,
                    cells |-> [c \in cols |->
                                 IF c \in DOMAIN rows[i].cells THEN rows[i].cells[c] ELSE NaN]]]]

\* the missing columns of columns_to_keep are added as '', then the
\* projection on columns_to_keep
KeepColumns(df) ==
  [cols |-> columns_to_keep,
   rows |-> [i \in DOMAIN df.rows |->
               [idx |-> df.rows[i].idx,
                cells |-> [c \in columns_to_keep |->
                             IF c \in df.cols THEN df.rows[i].cells[c] ELSE <<>>]]]]

\* variants: only the rows missing in the comparer; each side reduced to
\* the first row of every identifier
compare_one_direction(df1, df2) ==
  KeepColumns(concat(MissingRows(df1, df2, Comparer), MissingRows(NoTable, df1, Base)))
compare_dedup(df1, df2) ==
  LET firsts(df) ==
        [cols |-> df.cols,
         rows |-> SelectSeq(df.rows, LAMBDA r :
                    \A i \in DOMAIN df.rows :
                       df.rows[i].cells[PO] = r.cells[PO] => df.rows[i].idx >= r.idx)]
  IN  KeepColumns(concat(MissingRows(firsts(df1), df2, Comparer),
                         MissingRows(firsts(df2), df1, Base)))
\* compare_bidirectional(df1, df2)
compare_bidirectional(df1, df2) ==
  KeepColumns(concat(MissingRows(df1, df2, Comparer), MissingRows(df2, df1, Base)))

\* ---------------------------------------------------------------- state
VARIABLES
  base_file,        \* the upload of key "base": [present, df]
  comparer_file,    \* the upload of key "comparer": [present, df]
  base_feat,        \* extract_features(base_df)
  comparer_feat,    \* extract_features(comparer_df)
  base_sorted,      \* sort_df(base_feat)
  comparer_sorted,  \* sort_df(comparer_feat)
  result_df,        \* compare_bidirectional(base_sorted, comparer_sorted)
  out,              \* what the run has shown to the user, in order
  pc,               \* position of the script run
  h_raw,      \* harness: the raw PO value handed to the normalizer
  h_clean,    \* harness: clean_po(h_raw)
  h_id,       \* harness: add_spaces(h_clean), the identifier
  h_id2,      \* harness: add_spaces(h_id)
  h_norm2,    \* harness: add_spaces(clean_po(h_id))
  h_feat,     \* harness: extract_features of the one-row table of h_raw
  h_feat2,    \* harness: extract_features(h_feat)
  h_pc        \* harness: position

fvars == <<base_file, comparer_file, base_feat, comparer_feat, base_sorted,
           comparer_sorted, result_df, out, pc>>
hvars == <<h_raw, h_clean, h_id, h_id2, h_norm2, h_feat, h_feat2, h_pc>>
vars == <<fvars, hvars>>

\* ------------------------------------------------------ inputs: raw POs
tQ101 == <<"Q","1","0","1">>
tQ102 == <<"Q","1","0","2">>
tQ103 == <<"Q","1","0","3">>
tONMK == <<"O","N","M","K">>
tRBT == <<"R","B","T">>
sp == <<" ">>

\* "Q101 ONMK A RBT", "Q102 ONMK B RBT", "q101onmkarbt", "Q103ONMKc5%", "  "
PO_A == tQ101 \o sp \o tONMK \o sp \o <<"A">> \o sp \o tRBT
PO_B == tQ102 \o sp \o tONMK \o sp \o <<"B">> \o sp \o tRBT
PO_A2 == <<"q","1","0","1">> \o onmk \o <<"a">> \o rbt
PO_C == tQ103 \o tONMK \o <<"c","5","%">>
Blank == <<" ", " ">>
BasePOs == {NaN, Blank, PO_A, PO_A2, PO_B, PO_C}
ComparerPOs == {NaN, PO_A, PO_B, PO_C}
ColPOs == {NaN, PO_A, PO_B}

\* raw POs whose identifiers have a category ("q102 onmk a1onmk rbt" has the
\* category "a1onmk"), and raw POs without a category or without a quarter
SortPOs ==
  { tQ102 \o onmk \o <<"a","1">> \o onmk \o rbt,
    tQ101 \o onmk \o <<"a","1">> \o onmk \o rbt,
    tQ101 \o onmk \o <<"B","1">> \o onmk \o rbt,
    onmk \o <<"a","1">> \o onmk \o rbt,
    tQ103 \o sp \o tONMK \o sp \o <<"A">> \o sp \o tRBT,
    PO_A2,
    <<"x">> }

\* "Q101ONMKdrugA5%" and "q101 onmk druga 5%"
Scenario2 ==
  << tQ101 \o tONMK \o <<"d","r","u","g","A","5","%">>,
     <<"q","1","0","1">> \o sp \o onmk \o sp \o <<"d","r","u","g","a">> \o sp \o <<"5","%">> >>

Tokens ==
  { tQ101, onmk, onmark, <<"d","A">>, <<"5","%">>, rbt, sp, <<"7">> }

RECURSIVE TokenStrings(_)
TokenStrings(n) ==
  IF n = 0 THEN {<<>>}
  ELSE LET shorter == TokenStrings(n - 1)
       IN  shorter \cup {s \o t : s \in shorter, t \in Tokens}

\* two spellings of one token: the letter case differs, or one side has
\* whitespace the other has not
PairTokens ==
  { <<tQ101, <<"q","1","0","1">> >>, <<onmk, tONMK>>, <<<<"d","A">>, <<"D","a">> >>,
    <<<<"5","%">>, <<"5","%">> >>, <<tRBT, rbt>>, <<sp, <<>> >>, << <<>>, sp>>,
    <<<<"\t">>, <<" "," ">> >> }

RECURSIVE PairStrings(_)
PairStrings(n) ==
  IF n = 0 THEN {<< <<>>, <<>> >>}
  ELSE LET shorter == PairStrings(n - 1)
       IN  shorter \cup {<<p[1] \o t[1], p[2] \o t[2]>> : p \in shorter, t \in PairTokens}

\* ---------------------------------------------------- inputs: the uploads
AllCols == {PO, "DESCRIPTION", "CREDIT AMT", "ACCOUNT"}
ColsWithPO == { AllCols, {PO, "CREDIT AMT"} }
ColsWithoutPO == {"DESCRIPTION", "CREDIT AMT"}

BoundedSeqs(S, n) == UNION {[1..k -> S] : k \in 0..n}

\* a parsed CSV: row i has the index label i - 1
RawTable(cols, pos) ==
  [cols |-> cols,
   rows |-> [i \in DOMAIN pos |->
               [idx |-> i - 1,
                cells |-> [c \in cols |->
                             IF c = PO THEN pos[i]
                             ELSE IF c = "DESCRIPTION" THEN <<"d", DigitChars[i]>>
                             ELSE IF c = "CREDIT AMT" THEN <<"9">>
                             ELSE <<"k">>]]]]

\* the tables of at most n rows with a PO # column, and those without one
TablesWithPO(colsets, POs, n) ==
  {RawTable(cols, pos) : cols \in colsets, pos \in BoundedSeqs(POs, n)}
TablesWithoutPO(n) == {RawTable(ColsWithoutPO, pos) : pos \in BoundedSeqs({NaN}, n)}

NoFile == [present |-> FALSE, df |-> NoTable]
Files(T) == {NoFile} \cup {[present |-> TRUE, df |-> t] : t \in T}

FlowStart ==
  /\ base_feat = NoTable /\ comparer_feat = NoTable
  /\ base_sorted = NoTable /\ comparer_sorted = NoTable
  /\ result_df = NoTable
  /\ out = <<>>
  /\ pc = "start"

HarnessIdle ==
  /\ h_raw = NaN /\ h_clean = NaN /\ h_id = NaN /\ h_id2 = NaN /\ h_norm2 = NaN
  /\ h_feat = NoTable /\ h_feat2 = NoTable
  /\ h_pc = "off"

\* two uploads of at most MaxRows rows
Init ==
  /\ base_file \in Files(TablesWithPO({AllCols}, BasePOs, MaxRows) \cup TablesWithoutPO(1))
  /\ comparer_file \in Files(TablesWithPO({AllCols}, ComparerPOs, MaxRows) \cup TablesWithoutPO(1))
  /\ FlowStart /\ HarnessIdle

\* two uploads with every choice of columns
InitCols ==
  /\ base_file \in Files(TablesWithPO(ColsWithPO, ColPOs, MaxRows) \cup TablesWithoutPO(MaxRows))
  /\ comparer_file \in Files(TablesWithPO(ColsWithPO, ColPOs, MaxRows) \cup TablesWithoutPO(MaxRows))
  /\ FlowStart /\ HarnessIdle

\* a base table of at most MaxSortRows rows with an empty or a one-row comparer
InitSort ==
  /\ base_file \in Files(TablesWithPO({AllCols}, SortPOs, MaxSortRows))
  /\ comparer_file \in Files(TablesWithPO({AllCols}, {PO_A2}, 1))
  /\ FlowStart /\ HarnessIdle

\* two one-row uploads whose POs are two spellings of one string
InitPair ==
  /\ \E p \in PairStrings(MaxPairTokens) \cup {Scenario2} :
       \E cb \in ColsWithPO, cc \in ColsWithPO :
         /\ base_file = [present |-> TRUE, df |-> RawTable(cb, <<p[1]>>)]
         /\ comparer_file = [present |-> TRUE, df |-> RawTable(cc, <<p[2]>>)]
  /\ FlowStart /\ HarnessIdle

\* ---------------------------------------------------------- the main flow
Show(items) == out' = out \o items

\* variant: the exception is swallowed
Fail_silent ==
  /\ UNCHANGED out
  /\ pc' = "done"
\* except Exception as e: st.error(f"Error processing files: {e}")
Fail ==
  /\ Show(<<"error">>)
  /\ pc' = "done"

\* if base_file and comparer_file: ... else: st.info(...)
CheckFiles ==
  /\ pc = "start"
  /\ IF base_file.present /\ comparer_file.present
     THEN pc' = "extract_base" /\ UNCHANGED out
     ELSE Show(<<"info">>) /\ pc' = "done"
  /\ UNCHANGED <<base_file, comparer_file, base_feat, comparer_feat, base_sorted,
                 comparer_sorted, result_df, hvars>>

\* base_feat = extract_features(base_df); df["PO #"] raises KeyError when the
\* table has no such column
ExtractBase ==
  /\ pc = "extract_base"
  /\ IF PO \in base_file.df.cols
     THEN /\ base_feat' = extract_features(base_file.df)
          /\ pc' = "extract_comparer"
          /\ UNCHANGED out
     ELSE Fail /\ UNCHANGED base_feat
  /\ UNCHANGED <<base_file, comparer_file, comparer_feat, base_sorted,
                 comparer_sorted, result_df, hvars>>

ExtractComparer ==
  /\ pc = "extract_comparer"
  /\ IF PO \in comparer_file.df.cols
     THEN /\ comparer_feat' = extract_features(comparer_file.df)
          /\ pc' = "sort_base"
          /\ UNCHANGED out
     ELSE Fail /\ UNCHANGED comparer_feat
  /\ UNCHANGED <<base_file, comparer_file, base_feat, base_sorted,
                 comparer_sorted, result_df, hvars>>

SortBase ==
  /\ pc = "sort_base"
  /\ base_sorted' = sort_df(base_feat)
  /\ pc' = "sort_comparer"
  /\ UNCHANGED <<base_file, comparer_file, base_feat, comparer_feat,
                 comparer_sorted, result_df, out, hvars>>

SortComparer ==
  /\ pc = "sort_comparer"
  /\ comparer_sorted' = sort_df(comparer_feat)
  /\ pc' = "preview"
  /\ UNCHANGED <<base_file, comparer_file, base_feat, comparer_feat,
                 base_sorted, result_df, out, hvars>>

\* the two previews (head(20)) and the two downloads of the sorted tables
Preview ==
  /\ pc = "preview"
  /\ Show(<<"preview_base", "download_sorted_base",
            "preview_comparer", "download_sorted_comparer">>)
  /\ pc' = "button"
  /\ UNCHANGED <<base_file, comparer_file, base_feat, comparer_feat, base_sorted,
                 comparer_sorted, result_df, hvars>>

\* if st.button("Compare and Find Missing Rows (Both Directions)"): ...
Compare ==
  /\ pc = "button"
  /\ \E clicked \in BOOLEAN :
       IF clicked
       THEN /\ result_df' = compare_bidirectional(base_sorted, comparer_sorted)
            /\ Show(<<"report", "download_report">>)
            /\ pc' = "send"
       ELSE /\ pc' = "done"
            /\ UNCHANGED <<result_df, out>>
  /\ UNCHANGED <<base_file, comparer_file, base_feat, comparer_feat, base_sorted,
                 comparer_sorted, hvars>>

\* if send_btn and recipient: the report goes out by e-mail or by WhatsApp;
\* an exception of the provider is shown as "Failed to send report"
Send ==
  /\ pc = "send"
  /\ \E send_btn \in BOOLEAN, recipient \in {<<>>, <<"r">>},
        delivery_method \in {"Email", "WhatsApp"}, delivered \in BOOLEAN :
       IF send_btn /\ recipient # <<>>
       THEN IF delivered
            THEN Show(<<IF delivery_method = "Email" THEN "sent_email" ELSE "sent_whatsapp">>)
            ELSE Show(<<"send_failed">>)
       ELSE UNCHANGED out
  /\ pc' = "done"
  /\ UNCHANGED <<base_file, comparer_file, base_feat, comparer_feat, base_sorted,
                 comparer_sorted, result_df, hvars>>

Next ==
  \/ CheckFiles
  \/ ExtractBase
  \/ ExtractComparer
  \/ SortBase
  \/ SortComparer
  \/ Preview
  \/ Compare
  \/ Send

Spec == Init /\ [][Next]_vars
SpecCols == InitCols /\ [][Next]_vars
SpecSort == InitSort /\ [][Next]_vars
SpecPair == InitPair /\ [][Next]_vars

\* ------------------------------------------- the normalizer, step by step
FlowIdle ==
  /\ base_file = NoFile /\ comparer_file = NoFile
  /\ base_feat = NoTable /\ comparer_feat = NoTable
  /\ base_sorted = NoTable /\ comparer_sorted = NoTable
  /\ result_df = NoTable
  /\ out = <<>>
  /\ pc = "off"

InitNorm ==
  /\ h_raw \in TokenStrings(MaxTokens) \cup {NaN}
  /\ h_clean = NaN /\ h_id = NaN /\ h_id2 = NaN /\ h_norm2 = NaN
  /\ h_feat = NoTable /\ h_feat2 = NoTable
  /\ h_pc = "raw"
  /\ FlowIdle

\* clean_po(x)
NormClean ==
  /\ h_pc = "raw"
  /\ h_clean' = clean_po(h_raw)
  /\ h_pc' = "clean"
  /\ UNCHANGED <<h_raw, h_id, h_id2, h_norm2, h_feat, h_feat2, fvars>>

\* add_spaces(clean_po(x))
NormSpace ==
  /\ h_pc = "clean"
  /\ h_id' = add_spaces(h_clean)
  /\ h_pc' = "id"
  /\ UNCHANGED <<h_raw, h_clean, h_id2, h_norm2, h_feat, h_feat2, fvars>>

\* add_spaces on the identifier
NormSpaceAgain ==
  /\ h_pc = "id"
  /\ h_id2' = add_spaces(h_id)
  /\ h_pc' = "id2"
  /\ UNCHANGED <<h_raw, h_clean, h_id, h_norm2, h_feat, h_feat2, fvars>>

\* add_spaces(clean_po(.)) on the identifier
NormAgain ==
  /\ h_pc = "id2"
  /\ h_norm2' = add_spaces(clean_po(h_id))
  /\ h_pc' = "norm2"
  /\ UNCHANGED <<h_raw, h_clean, h_id, h_id2, h_feat, h_feat2, fvars>>

\* extract_features on the one-row table of x
NormExtract ==
  /\ h_pc = "norm2"
  /\ h_feat' = extract_features(RawTable({PO, "DESCRIPTION"}, <<h_raw>>))
  /\ h_pc' = "feat"
  /\ UNCHANGED <<h_raw, h_clean, h_id, h_id2, h_norm2, h_feat2, fvars>>

\* extract_features on its own output
NormExtractAgain ==
  /\ h_pc = "feat"
  /\ h_feat2' = extract_features(h_feat)
  /\ h_pc' = "done"
  /\ UNCHANGED <<h_raw, h_clean, h_id, h_id2, h_norm2, h_feat, fvars>>

NextNorm ==
  \/ NormClean
  \/ NormSpace
  \/ NormSpaceAgain
  \/ NormAgain
  \/ NormExtract
  \/ NormExtractAgain

SpecNorm == InitNorm /\ [][NextNorm]_vars

\* ------------------------------------------------------------------ claims
Ids(df) == Column(df, PO)
Shown(item) == item \in Range(out)
\* both tables went through extract_features
Extracted == pc \in {"sort_base", "sort_comparer", "preview", "button", "send"}
             \/ (pc = "done" /\ Shown("preview_base"))
\* both tables went through sort_df
Sorted == pc \in {"preview", "button", "send"} \/ (pc = "done" /\ Shown("preview_base"))
\* compare_bidirectional has produced result_df
Compared == Shown("report")
Tagged(tag) == SelectSeq(result_df.rows, LAMBDA r : r.cells[MissingIn] = tag)
\* the raw PO value of the row of an upload with the index label idx
RawPO(file, idx) == file.df.rows[idx + 1].cells[PO]
\* null, empty or only whitespace
IsBlank(po) == isna(po) \/ \A i \in DOMAIN po : IsSpace(po[i])
\* all whitespace deleted, lower-cased
Collapse(po) == str_lower(SelectSeq(po, LAMBDA c : ~IsSpace(c)))

\* C1: completeness of the report. Every identifier of base that is in no
\* comparer row is in a report row tagged "Comparer", every identifier of
\* comparer that is in no base row is in a report row tagged "Base", and an
\* identifier of both tables is in no report row.
C1_Completeness ==
  Compared =>
    /\ \A id \in Ids(base_sorted) \ Ids(comparer_sorted) :
         \E i \in DOMAIN result_df.rows :
           result_df.rows[i].cells[PO] = id /\ result_df.rows[i].cells[MissingIn] = Comparer
    /\ \A id \in Ids(comparer_sorted) \ Ids(base_sorted) :
         \E i \in DOMAIN result_df.rows :
           result_df.rows[i].cells[PO] = id /\ result_df.rows[i].cells[MissingIn] = Base
    /\ \A id \in Ids(base_sorted) \cap Ids(comparer_sorted) :
         \A i \in DOMAIN result_df.rows : result_df.rows[i].cells[PO] # id

\* a report of two tables that share an identifier and have each an
\* identifier of their own
C1_Witness ==
  /\ Compared
  /\ Ids(base_sorted) \ Ids(comparer_sorted) # {}
  /\ Ids(comparer_sorted) \ Ids(base_sorted) # {}
  /\ Ids(base_sorted) \cap Ids(comparer_sorted) # {}

\* the rows of df1 whose identifier is in no row of df2, in the order of df1
Absent(df1, df2) == SelectSeq(df1.rows, LAMBDA r : r.cells[PO] \notin Ids(df2))
\* report row r is the row s of a sorted table, tagged tag
IsReportOf(r, s, tag) ==
  /\ r.cells[MissingIn] = tag
  /\ \A c \in columns_to_keep \ {MissingIn} : r.cells[c] = s.cells[c]

\* C2: the report is the base rows whose identifier is absent from comparer,
\* in base's order and tagged "Comparer", followed by the comparer rows whose
\* identifier is absent from base, in comparer's order and tagged "Base";
\* one report row per such row, repeated identifiers included.
C2_ReportIsConcatenation ==
  Compared =>
    LET first == Absent(base_sorted, comparer_sorted)
        second == Absent(comparer_sorted, base_sorted)
    IN  /\ Len(result_df.rows) = Len(first) + Len(second)
        /\ \A i \in DOMAIN first : IsReportOf(result_df.rows[i], first[i], Comparer)
        /\ \A i \in DOMAIN second :
             IsReportOf(result_df.rows[Len(first) + i], second[i], Base)

\* a report with two rows of one identifier from base and a row from comparer
C2_Witness ==
  /\ Compared
  /\ Len(Tagged(Comparer)) = 2
  /\ Tagged(Comparer)[1].cells[PO] = Tagged(Comparer)[2].cells[PO]
  /\ Len(Tagged(Base)) >= 1

\* C3: two raw POs that are equal once all whitespace is deleted and the
\* letters are lower-cased get the same identifier, and a base table with
\* one and a comparer table with the other give an empty report.
C3_RespellingsReconcile ==
  (/\ Extracted
   /\ Collapse(RawPO(base_file, 0)) = Collapse(RawPO(comparer_file, 0)))
  => /\ Ids(base_feat) = Ids(comparer_feat)
     /\ Len(base_feat.rows) = Len(comparer_feat.rows)
     /\ Compared => result_df.rows = <<>>

\* an empty report of two POs that differ in whitespace and in letter case
C3_Witness ==
  /\ Compared
  /\ result_df.rows = <<>>
  /\ Len(base_feat.rows) = 1
  /\ RawPO(base_file, 0) # RawPO(comparer_file, 0)
  /\ str_lower(RawPO(base_file, 0)) # str_lower(RawPO(comparer_file, 0))
  /\ re_sub_ws(RawPO(base_file, 0)) # re_sub_ws(RawPO(comparer_file, 0))

\* C4: normalization is idempotent: add_spaces(clean_po(.)) applied to an
\* identifier returns the identifier, and extract_features applied to its
\* own output leaves every PO # value unchanged.
C4_NormalizeIdempotent ==
  h_pc = "done" =>
    /\ h_norm2 = h_id
    /\ Len(h_feat2.rows) = Len(h_feat.rows)
    /\ \A i \in DOMAIN h_feat.rows : h_feat2.rows[i].cells[PO] = h_feat.rows[i].cells[PO]

\* an identifier with spaces put in by all three substitutions, normalized
\* again
C4_Witness ==
  /\ h_pc = "done"
  /\ Len(h_feat2.rows) = 1
  /\ Len(h_id) >= Len(h_clean) + 3
  /\ h_norm2 = h_id

\* the raw PO is a quarter token, ONMK, a word of letters and RBT, with a
\* space between them
IsMarkedWord(po) ==
  /\ ~isna(po)
  /\ Len(po) >= 14
  /\ QuarterAt(str_lower(po), 1)
  /\ HasAt(str_lower(po), 5, sp \o onmk \o sp)
  /\ HasAt(str_lower(po), Len(po) - 3, sp \o rbt)
  /\ LowerRun(str_lower(po), 11) = Len(po) - 14
MarkedWord(po) == str_lower(SubSeq(po, 11, Len(po) - 4))

\* C5: the category of a row is the text between the category marker and
\* the rbt marker: a raw PO made of a quarter token, ONMK, a word W and RBT
\* gets the Drug Category lower-cased W, and base = ["Q101 ONMK A RBT"] with
\* comparer = ["Q102 ONMK B RBT"] gives a report of two rows with the Drug
\* Category values "a" and "b".
C5_CategoryBetweenMarkers ==
  /\ Extracted =>
       \A i \in DOMAIN base_feat.rows :
         IsMarkedWord(RawPO(base_file, base_feat.rows[i].idx))
           => base_feat.rows[i].cells[DrugCategory]
                = MarkedWord(RawPO(base_file, base_feat.rows[i].idx))
  /\ (/\ Compared
      /\ Len(base_file.df.rows) = 1 /\ RawPO(base_file, 0) = PO_A
      /\ Len(comparer_file.df.rows) = 1 /\ RawPO(comparer_file, 0) = PO_B)
     => /\ Len(result_df.rows) = 2
        /\ result_df.rows[1].cells[DrugCategory] = <<"a">>
        /\ result_df.rows[2].cells[DrugCategory] = <<"b">>

\* the columns of the sorted table a report row comes from
SourceCols(r) == IF r.cells[MissingIn] = Comparer THEN base_sorted.cols ELSE comparer_sorted.cols

\* C6: every report row has exactly the six columns of the report, and where
\* the table the row comes from has no such column the row holds the empty
\* string, also when the other table has the column.
C6_ColumnFill ==
  Compared =>
    \A i \in DOMAIN result_df.rows :
      /\ DOMAIN result_df.rows[i].cells = columns_to_keep
      /\ \A c \in columns_to_keep \ {MissingIn} :
           c \notin SourceCols(result_df.rows[i]) => result_df.rows[i].cells[c] = <<>>

\* digits after the leading letter of a quarter key as a number, 0 when absent
Rank(q) == IF isna(q) THEN 0 ELSE ParseInt(Tail(q))
\* the rows of the sorted base table are the rows of base_feat, each once
IsPermutation ==
  /\ Len(base_sorted.rows) = Len(base_feat.rows)
  /\ \A i \in DOMAIN base_feat.rows :
       Cardinality({j \in DOMAIN base_sorted.rows : base_sorted.rows[j] = base_feat.rows[i]}) = 1
\* rows of equal category are in the order of their quarter rank
RankOrderedInCategory ==
  \A i, j \in DOMAIN base_sorted.rows :
    (i < j /\ base_sorted.rows[i].cells[DrugCategory] = base_sorted.rows[j].cells[DrugCategory])
      => Rank(base_sorted.rows[i].cells[QuarterKey]) <= Rank(base_sorted.rows[j].cells[QuarterKey])
\* rows with a category are in ascending order of it
CategoryAscending ==
  \A i, j \in DOMAIN base_sorted.rows :
    (/\ i < j
     /\ ~isna(base_sorted.rows[i].cells[DrugCategory])
     /\ ~isna(base_sorted.rows[j].cells[DrugCategory]))
      => ~StrLess(base_sorted.rows[j].cells[DrugCategory], base_sorted.rows[i].cells[DrugCategory])

\* C7 as stated: sort_df orders by category ascending with the rows without
\* a category before all rows with one, then by quarter rank (0 for an absent
\* quarter key); the result is a permutation of the input.
C7_AbsentCategoryFirst ==
  Sorted =>
    /\ IsPermutation
    /\ CategoryAscending
    /\ RankOrderedInCategory
    /\ \A i, j \in DOMAIN base_sorted.rows :
         (/\ isna(base_sorted.rows[i].cells[DrugCategory])
          /\ ~isna(base_sorted.rows[j].cells[DrugCategory])) => i < j

\* C7 amended: sort_df orders by category ascending with the rows without a
\* category after all rows with one, then by quarter rank (0 for an absent
\* quarter key); the result is a permutation of the input.
C7_AbsentCategoryLast ==
  Sorted =>
    /\ IsPermutation
    /\ CategoryAscending
    /\ RankOrderedInCategory
    /\ \A i, j \in DOMAIN base_sorted.rows :
         (/\ isna(base_sorted.rows[i].cells[DrugCategory])
          /\ ~isna(base_sorted.rows[j].cells[DrugCategory])) => j < i

\* a table that sort_df reorders: a row without a category uploaded first,
\* then two rows of one category with the later quarter first
C7_Witness ==
  /\ Sorted
  /\ Len(base_feat.rows) = 3
  /\ isna(base_feat.rows[1].cells[DrugCategory])
  /\ ~isna(base_feat.rows[2].cells[DrugCategory])
  /\ base_feat.rows[2].cells[DrugCategory] = base_feat.rows[3].cells[DrugCategory]
  /\ Rank(base_feat.rows[2].cells[QuarterKey]) > Rank(base_feat.rows[3].cells[QuarterKey])
  /\ base_sorted.rows = <<base_feat.rows[3], base_feat.rows[2], base_feat.rows[1]>>

\* the rows of an upload that extract_features has to keep
KeptIdx(file) == {i - 1 : i \in {k \in DOMAIN file.df.rows : ~IsBlank(file.df.rows[k].cells[PO])}}
FeatIdx(df) == {df.rows[i].idx : i \in DOMAIN df.rows}
\* report row r comes from a row of the upload whose PO is blank
FromBlank(r, file) ==
  \E k \in DOMAIN file.df.rows :
    /\ IsBlank(file.df.rows[k].cells[PO])
    /\ file.df.rows[k].cells["DESCRIPTION"] = r.cells["DESCRIPTION"]

\* C8: a row whose PO # is null, empty or only whitespace is removed by
\* extract_features without an error: no row of a normalized table has an
\* empty identifier, all other rows are kept, and no report row comes from
\* such a row.
C8_BlankRowsDropped ==
  (base_file.present /\ comparer_file.present
     /\ PO \in base_file.df.cols /\ PO \in comparer_file.df.cols)
  => /\ ~Shown("error")
     /\ Extracted =>
          /\ <<>> \notin Ids(base_feat) \cup Ids(comparer_feat)
          /\ NaN \notin Ids(base_feat) \cup Ids(comparer_feat)
          /\ FeatIdx(base_feat) = KeptIdx(base_file)
          /\ Len(base_feat.rows) = Cardinality(KeptIdx(base_file))
          /\ FeatIdx(comparer_feat) = KeptIdx(comparer_file)
          /\ Len(comparer_feat.rows) = Cardinality(KeptIdx(comparer_file))
     /\ Compared =>
          \A i \in DOMAIN result_df.rows :
            /\ ~IsBlank(result_df.rows[i].cells[PO])
            /\ ~FromBlank(result_df.rows[i],
                          IF result_df.rows[i].cells[MissingIn] = Comparer
                          THEN base_file ELSE comparer_file)

\* a report of a base table with a whitespace row and a kept row and of a
\* comparer table with a null row
C8_Witness ==
  /\ Compared
  /\ Len(base_file.df.rows) = 2
  /\ RawPO(base_file, 0) = Blank
  /\ Len(base_feat.rows) = 1
  /\ Len(comparer_file.df.rows) = 2
  /\ RawPO(comparer_file, 1) = NaN
  /\ Len(result_df.rows) = 2

\* one of the two uploads has no PO # column
LacksPO ==
  /\ base_file.present /\ comparer_file.present
  /\ (PO \notin base_file.df.cols \/ PO \notin comparer_file.df.cols)

\* C9: when an upload has no PO # column the run ends with the error
\* message and shows nothing else: no preview, no download, no report.
C9_MissingColumnIsFatal ==
  LacksPO =>
    /\ Range(out) \subseteq {"error"}
    /\ result_df = NoTable
    /\ pc = "done" => out = <<"error">>

\* the run has ended with the error after the base table, which has the
\* column, was processed
C9_Witness ==
  /\ pc = "done"
  /\ PO \in base_file.df.cols
  /\ Len(base_feat.rows) > 0
  /\ PO \notin comparer_file.df.cols
  /\ out = <<"error">>

\* C10: add_spaces is idempotent on collapsed strings:
\* add_spaces(add_spaces(y)) = add_spaces(y).
C10_RespaceIdempotent == h_pc \notin {"raw", "clean", "id"} => h_id2 = h_id

====
